---- MODULE Spec2Model ----
(***************************************************************************)
(* The prediction lifecycle of the traffic management backend:             *)
(* half-hour aggregation, the 21-day historical window selection, the      *)
(* decode/validation of the predictor's reply, the predictions table       *)
(* (store / get), the daily multi-device driver and the manual             *)
(* regeneration route.                                                     *)
(*                                                                         *)
(* Conventions.                                                            *)
(*   - A calendar day is its day number (days since 1970-01-01); an        *)
(*     instant is [day, sec] with sec the second of that day.  Table       *)
(*     columns of mode "timestamp" hold whole seconds (Stamp).             *)
(*   - A JavaScript number is held in tenths (Tenths(12) = 120, 12.5 is    *)
(*     125), so that Math.round has something to round.                    *)
(*   - A text (the predictor's reply, the predicted_values column) is a    *)
(*     sequence of lexical tokens [k, v].                                  *)
(***************************************************************************)
EXTENDS Integers, Sequences, FiniteSets, TLC

VARIABLES
    now,               \* the wall clock: [day, sec], and the steps it has taken
    espDevices,        \* esp_devices: the set of registered device ids
    deviceReadings,    \* device_readings rows
    halfHourAverages,  \* half_hour_averages rows
    predictions,       \* predictions rows
    provenance,        \* history: predictions.id -> which pipeline wrote the row, from which
                       \* reply, alongside which pipelines of the device still running
    batch,             \* the daily driver (scheduled -> processAllDevicePredictions)
    regen,             \* the POST /:deviceId/regenerate requests in flight
    lastGet,           \* what getPredictions returned, if the step just taken was a call of it
    selection,         \* the outcome of the latest getHistoricalDataset call
    lastAggregation,   \* the calculateHalfHourAverages call, if the step just taken was one
    conversion,        \* a convertToHijriEquivalent call: its arguments and its outcome
    response           \* the response of GET /:deviceId, if the step just taken served one

vars == <<now, espDevices, deviceReadings, halfHourAverages, predictions,
          provenance, batch, regen, lastGet, selection, lastAggregation, conversion, response>>

----------------------------------------------------------------------------
(* Bounds of the model *)

\* steps of the clock (seconds and midnights together)
MaxClock == 2
\* direct runs of the aggregator for one device and day
MaxAggregations == 2
\* inserts of a direct run that succeed before one fails
MaxInsertsBeforeFailure == 2
\* consecutive days, from the first day on, the calendar resolver is asked about
MaxConversionDays == 400
\* pipelines started: runs of the daily driver and regeneration requests together
MaxPipelines == 2

(* Program constants *)

\* half-hour slots per day, the length of a prediction vector
NumSlots == 48
SecondsPerDay == 24 * 60 * 60

----------------------------------------------------------------------------
(* JavaScript Date arithmetic on day numbers (proleptic Gregorian calendar) *)

\* day number of the civil date y-m-d; d may overflow the month, as in
\* new Date(y, m, d): the date rolls over into the following months
DaysFromCivil(y, m, d) ==
    LET yy  == IF m <= 2 THEN y - 1 ELSE y
        era == yy \div 400
        yoe == yy - era * 400
        mp  == IF m > 2 THEN m - 3 ELSE m + 9
        doy == (153 * mp + 2) \div 5
        doe == yoe * 365 + yoe \div 4 - yoe \div 100 + doy
    IN  era * 146097 + doe - 719468 + (d - 1)

\* the civil date [y, m, d] of a day number
CivilFromDays(z) ==
    LET zz  == z + 719468
        era == zz \div 146097
        doe == zz - era * 146097
        yoe == (doe - doe \div 1460 + doe \div 36524 - doe \div 146096) \div 365
        doy == doe - (365 * yoe + yoe \div 4 - yoe \div 100)
        mp  == (5 * doy + 2) \div 153
        dd  == doy - (153 * mp + 2) \div 5 + 1
        mm  == IF mp < 10 THEN mp + 3 ELSE mp - 9
    IN  [y |-> (yoe + era * 400) + (IF mm <= 2 THEN 1 ELSE 0), m |-> mm, d |-> dd]

\* Date.prototype.getDay: 0 = Sunday (1970-01-01 was a Thursday)
getDay(day) == (day + 4) % 7

\* date.setFullYear(date.getFullYear() - years): Feb 29 rolls over to Mar 1
setFullYearBack(day, years) ==
    LET c == CivilFromDays(day) IN DaysFromCivil(c.y - years, c.m, c.d)

\* date.setMonth(date.getMonth() - months): a day the target month lacks
\* rolls over into the month after it
setMonthBack(day, months) ==
    LET c  == CivilFromDays(day)
        m0 == (c.m - 1) - months
        yy == c.y + (m0 \div 12)
        mm == (m0 % 12) + 1
    IN  DaysFromCivil(yy, mm, c.d)

\* date.setDate(n): the n-th day of the date's month
setDate(day, n) ==
    LET c == CivilFromDays(day) IN DaysFromCivil(c.y, c.m, n)

\* the value a timestamp column holds for an instant: whole seconds
Stamp(t) == t.day * SecondsPerDay + t.sec

\* date.setHours(0, 0, 0, 0)
Midnight(day) == [day |-> day, sec |-> 0]

----------------------------------------------------------------------------
(* Texts and JSON *)

Tok(k, v) == [k |-> k, v |-> v]
LBracket == Tok("[", 0)
RBracket == Tok("]", 0)
Comma    == Tok(",", 0)
\* a JSON number, in tenths
Num(t)   == Tok("num", t)
\* a JSON string whose content is a decimal numeral, e.g. "50"
NumStr(t) == Tok("numstr", t)
\* a JSON string that is no numeral, e.g. "not a number"
Str      == Tok("text", 0)
Null     == Tok("null", 0)
True     == Tok("true", 0)
\* a word of prose: no JSON token
Word     == Tok("word", 0)
\* white space
Space    == Tok("ws", 0)

Tenths(n) == 10 * n

ScalarKinds == {"num", "numstr", "text", "null", "true"}

IsNotSpace(tok) == tok.k # "ws"

\* the text of a JSON array with the given elements: [e1,e2,...]
ArrayText(elems) ==
    LET n == Len(elems) IN
    IF n = 0 THEN <<LBracket, RBracket>>
    ELSE [i \in 1..(2 * n + 1) |->
            IF i = 1 THEN LBracket
            ELSE IF i = 2 * n + 1 THEN RBracket
            ELSE IF i % 2 = 0 THEN elems[i \div 2]
            ELSE Comma]

\* JSON.stringify of a number[]
JSONstringify(values) == ArrayText([i \in 1..Len(values) |-> Num(values[i])])

\* JSON.parse(text.trim()) for scalars and flat arrays: [ok, isArray, elems];
\* ok = FALSE is the SyntaxError.  White space between tokens is insignificant.
JSONparse(text) ==
    LET t == SelectSeq(text, IsNotSpace)
        n == Len(t)
    IN  IF n = 1 /\ t[1].k \in ScalarKinds
        THEN [ok |-> TRUE, isArray |-> FALSE, elems |-> <<t[1]>>]
        ELSE IF /\ n >= 2
                /\ t[1] = LBracket
                /\ t[n] = RBracket
                /\ \/ n = 2
                   \/ /\ n % 2 = 1
                      /\ \A i \in 2..(n - 1) :
                            IF i % 2 = 0 THEN t[i].k \in ScalarKinds ELSE t[i] = Comma
        THEN [ok |-> TRUE, isArray |-> TRUE,
              elems |-> [i \in 1..((n - 1) \div 2) |-> t[2 * i]]]
        ELSE [ok |-> FALSE, isArray |-> FALSE, elems |-> <<>>]

\* isNaN(Number(p)) for a parsed JSON scalar p
NumberIsNaN(p) == p.k = "text"

\* Number(p), in tenths, where it is a number
Number(p) ==
    CASE p.k = "num"    -> p.v
      [] p.k = "numstr" -> p.v
      [] p.k = "true"   -> Tenths(1)
      [] OTHER          -> 0

\* Math.round of a number in tenths: floor(x + 0.5)
MathRound(t) == ((t + 5) \div 10) * 10


----------------------------------------------------------------------------
(* Table helpers *)

\* INTEGER PRIMARY KEY AUTOINCREMENT; no row of these tables is ever deleted
NextId(table) == Cardinality(table) + 1

\* (mutant) the query without its esp_id condition
AveragesBetweenAnyDevice(deviceId, from, to) ==
    {a \in halfHourAverages : a.timestamp >= from /\ a.timestamp < to}

\* SELECT ... WHERE esp_id = deviceId AND timestamp >= from AND timestamp < to
AveragesBetween(deviceId, from, to) ==
    {a \in halfHourAverages :
        a.espId = deviceId /\ a.timestamp >= from /\ a.timestamp < to}

\* (mutant) the device is not part of the WHERE clause
AveragesSinceAnyDevice(deviceId, from) ==
    {a \in halfHourAverages : a.timestamp >= from}

\* SELECT ... WHERE esp_id = deviceId AND timestamp >= from
AveragesSince(deviceId, from) ==
    {a \in halfHourAverages : a.espId = deviceId /\ a.timestamp >= from}

----------------------------------------------------------------------------
(* calculateHalfHourAverages *)

\* the readings of the device from yesterday 00:00 up to today 00:00
YesterdaysReadings(deviceId, t) ==
    {r \in deviceReadings :
        /\ r.deviceId = deviceId
        /\ r.timestamp >= Stamp(Midnight(t.day - 1))
        /\ r.timestamp < Stamp(Midnight(t.day))}

\* (mutant) Math.round in the place of Math.floor
halfHourIndexRounded(timestamp) ==
    LET sod    == timestamp % SecondsPerDay
        hour   == sod \div 3600
        minute == (sod % 3600) \div 60
    IN  hour * 2 + ((minute + 15) \div 30)

\* hour * 2 + Math.floor(minute / 30) of a reading's timestamp
halfHourIndex(timestamp) ==
    LET sod    == timestamp % SecondsPerDay
        hour   == sod \div 3600
        minute == (sod % 3600) \div 60
    IN  hour * 2 + (minute \div 30)

RECURSIVE SumJam(_)
\* the sum over a group of road1JamPercent + road2JamPercent
SumJam(rs) ==
    IF rs = {} THEN 0
    ELSE LET r == CHOOSE x \in rs : TRUE
         IN  (r.road1JamPercent + r.road2JamPercent) + SumJam(rs \ {r})

\* (mutant) the two roads added, not averaged
averageValueOfSums(rs) == (2 * SumJam(rs) + Cardinality(rs)) \div (2 * Cardinality(rs))

\* (mutant) Math.floor in the place of Math.round
averageValueFloored(rs) == SumJam(rs) \div (2 * Cardinality(rs))

\* Math.round(sum of (road1 + road2) / 2, divided by the group's length)
averageValue(rs) == (SumJam(rs) + Cardinality(rs)) \div (2 * Cardinality(rs))

\* the keys of halfHourGroups, in the ascending order Object.entries lists them
RECURSIVE SortedSlots(_)
SortedSlots(S) ==
    IF S = {} THEN <<>>
    ELSE LET m == CHOOSE x \in S : \A y \in S : x <= y
         IN  <<m>> \o SortedSlots(S \ {m})

\* the rows one run inserts when its first `count` inserts succeed
AverageRows(deviceId, t, count) ==
    LET readings == YesterdaysReadings(deviceId, t)
        slots    == SortedSlots({halfHourIndex(r.timestamp) : r \in readings})
        base     == Cardinality(halfHourAverages)
    IN  {[id            |-> base + k,
          espId         |-> deviceId,
          timestamp     |-> Stamp(Midnight(t.day - 1)) + slots[k] * 1800,
          averageValue  |-> averageValue({r \in readings :
                                            halfHourIndex(r.timestamp) = slots[k]}),
          halfHourIndex |-> slots[k]] : k \in 1..count}

\* the number of inserts a complete run makes
SlotCount(deviceId, t) ==
    Cardinality({halfHourIndex(r.timestamp) : r \in YesterdaysReadings(deviceId, t)})

\* (mutant) a record for each of the 48 slots, 0 where there are no readings
calculateHalfHourAveragesZeroFilled(deviceId, t) ==
    LET readings == YesterdaysReadings(deviceId, t)
        base     == Cardinality(halfHourAverages)
    IN  halfHourAverages \cup
        {[id            |-> base + k + 1,
          espId         |-> deviceId,
          timestamp     |-> Stamp(Midnight(t.day - 1)) + k * 1800,
          averageValue  |-> IF \E r \in readings : halfHourIndex(r.timestamp) = k
                            THEN averageValue({r \in readings : halfHourIndex(r.timestamp) = k})
                            ELSE 0,
          halfHourIndex |-> k] : k \in 0..(NumSlots - 1)}

\* (mutant) the day's earlier records are deleted before the inserts
calculateHalfHourAveragesReplacing(deviceId, t) ==
    {a \in halfHourAverages :
        ~(a.espId = deviceId /\ a.timestamp \div SecondsPerDay = t.day - 1)}
        \cup AverageRows(deviceId, t, SlotCount(deviceId, t))

\* (mutant) a day that has records of the device already is not aggregated again
calculateHalfHourAveragesOnce(deviceId, t) ==
    IF \E a \in halfHourAverages :
          a.espId = deviceId /\ a.timestamp \div SecondsPerDay = t.day - 1
    THEN halfHourAverages
    ELSE halfHourAverages \cup AverageRows(deviceId, t, SlotCount(deviceId, t))

\* a run that returns normally
calculateHalfHourAverages(deviceId, t) ==
    halfHourAverages \cup AverageRows(deviceId, t, SlotCount(deviceId, t))

\* what a call of calculateHalfHourAverages leaves: the device, the day it
\* aggregated (yesterday), the number of rows the table had before, and
\* whether it threw
AggregationResult(deviceId, t, threw) ==
    [called   |-> TRUE,
     threw    |-> threw,
     deviceId |-> deviceId,
     day      |-> t.day - 1,
     before   |-> Cardinality(halfHourAverages)]

\* no call of calculateHalfHourAverages in the step just taken
NoAggregation ==
    [called |-> FALSE, threw |-> FALSE, deviceId |-> "", day |-> 0, before |-> 0]

\* no call of convertToHijriEquivalent
NoConversion ==
    [called |-> FALSE, threw |-> FALSE, from |-> 0, yearsBack |-> 0, date |-> 0]

\* no request served in the step just taken
NoResponse == [called |-> FALSE, deviceId |-> "", status |-> 0, error |-> ""]

----------------------------------------------------------------------------
(* getHistoricalDataset *)

\* one query of the selector: the window [from, to) and the rows it returned;
\* to = -1 stands for a query without an upper limit
DaySample(deviceId, day) ==
    [from |-> Stamp(Midnight(day)),
     to   |-> Stamp(Midnight(day + 1)),
     rows |-> AveragesBetween(deviceId, Stamp(Midnight(day)), Stamp(Midnight(day + 1)))]

\* 1. same calendar day of the last 3 years
sameDayLastYears(deviceId, t) ==
    [year \in 1..3 |-> DaySample(deviceId, setFullYearBack(t.day, year))]

\* 2. last 7 days: everything from (now - 7 days) on, time of day kept
lastSevenDays(deviceId, t) ==
    [from |-> Stamp([day |-> t.day - 7, sec |-> t.sec]),
     to   |-> -1,
     rows |-> AveragesSince(deviceId, Stamp([day |-> t.day - 7, sec |-> t.sec]))]

\* same weekday of the last 4 weeks
WeekdayTarget(t, week) ==
    LET targetDate == t.day - week * 7
        dayDiff    == (getDay(targetDate) - getDay(t.day) + 7) % 7
    IN  targetDate - dayDiff

\* mid-month of the last 2 months
MidMonthTarget(t, month) == setDate(setMonthBack(t.day, month), 15)

\* the two random days, rand1 and rand2 being Math.floor(Math.random() * 30)
RandomTarget(t, i, rand) ==
    setMonthBack(t.day, 6) + rand + (IF i = 2 THEN 30 ELSE 0)

\* 3. weekday patterns, in the order the samples are pushed
weekdayPatterns(deviceId, t, rand1, rand2) ==
    [i \in 1..8 |->
        IF i <= 4 THEN DaySample(deviceId, WeekdayTarget(t, i))
        ELSE IF i <= 6 THEN DaySample(deviceId, MidMonthTarget(t, i - 4))
        ELSE IF i = 7 THEN DaySample(deviceId, RandomTarget(t, 1, rand1))
        ELSE DaySample(deviceId, RandomTarget(t, 2, rand2))]

getHistoricalDataset(deviceId, t, rand1, rand2) ==
    [sameDayLastYears |-> sameDayLastYears(deviceId, t),
     lastSevenDays    |-> lastSevenDays(deviceId, t),
     weekdayPatterns  |-> weekdayPatterns(deviceId, t, rand1, rand2)]


----------------------------------------------------------------------------
(* generatePredictions: the decode of the predictor's reply *)

\* result.choices?.[0]?.message?.content || "[]"
predictionText(content) ==
    IF content = <<>> THEN <<LBracket, RBracket>> ELSE content

\* (mutant) a value out of range is clamped to the nearer limit
ValidateElementClamp(p) ==
    IF NumberIsNaN(p) \/ Number(p) < 0 THEN 0
    ELSE IF Number(p) > Tenths(100) THEN Tenths(100)
    ELSE MathRound(Number(p))

\* (mutant) the range check left out
ValidateElementNoRange(p) ==
    IF NumberIsNaN(p) THEN 0 ELSE MathRound(Number(p))

\* one element of validatedPredictions
ValidateElement(p) ==
    IF NumberIsNaN(p) \/ Number(p) < 0 \/ Number(p) > Tenths(100)
    THEN 0
    ELSE MathRound(Number(p))

\* new Array(48).fill(0)
DefaultPredictions == [i \in 1..NumSlots |-> 0]

\* (mutant) the shape check without predictions.length !== 48
validatedPredictionsAnyLength(content) ==
    LET parsed == JSONparse(predictionText(content)) IN
    IF parsed.ok /\ parsed.isArray
    THEN [i \in 1..Len(parsed.elems) |-> ValidateElement(parsed.elems[i])]
    ELSE DefaultPredictions

\* the inner try/catch: parse, check the shape, validate each element;
\* any exception yields the default vector
validatedPredictions(content) ==
    LET parsed == JSONparse(predictionText(content)) IN
    IF parsed.ok /\ parsed.isArray /\ Len(parsed.elems) = NumSlots
    THEN [i \in 1..NumSlots |-> ValidateElement(parsed.elems[i])]
    ELSE DefaultPredictions

----------------------------------------------------------------------------
(* storePredictions and getPredictions *)

\* (mutant) the target date is the day of the call
TomorrowIsToday(t) == Stamp(Midnight(t.day))

\* tomorrow 00:00, as the prediction_date column holds it
Tomorrow(t) == Stamp(Midnight(t.day + 1))

\* today 00:00
Today(t) == Stamp(Midnight(t.day))

\* the row storePredictions inserts
PredictionRow(deviceId, predictedValues, t) ==
    [id              |-> NextId(predictions),
     espId           |-> deviceId,
     predictionDate  |-> Tomorrow(t),
     predictedValues |-> JSONstringify(predictedValues),
     generatedAt     |-> Stamp(t)]

\* (mutant) the device's record for the target date is overwritten
storePredictionsReplacing(deviceId, predictedValues, t) ==
    {r \in predictions : ~(r.espId = deviceId /\ r.predictionDate = Tomorrow(t))}
        \cup {PredictionRow(deviceId, predictedValues, t)}

storePredictions(deviceId, predictedValues, t) ==
    predictions \cup {PredictionRow(deviceId, predictedValues, t)}

\* WHERE esp_id = deviceId AND prediction_date = today
TodaysPredictions(deviceId, t) ==
    {r \in predictions : r.espId = deviceId /\ r.predictionDate = Today(t)}

\* (mutant) ORDER BY generated_at ASC
Oldest(rows) ==
    {r \in rows : \A q \in rows : q.generatedAt >= r.generatedAt}

\* ORDER BY generated_at DESC LIMIT 1: the rows the query may return first;
\* rows with equal generated_at are in no specified order
Latest(rows) ==
    {r \in rows : \A q \in rows : q.generatedAt <= r.generatedAt}

NoRow == 0

\* what a getPredictions call leaves: the row it read (NoRow: none), whether it
\* returned null, the parsed value it returned, and whether the catch ran
GetResult(deviceId, t, rowId, isNull, json, threw) ==
    [called   |-> TRUE,
     threw    |-> threw,
     deviceId |-> deviceId,
     day      |-> t.day,
     row      |-> rowId,
     null     |-> isNull,
     json     |-> json]

NoJson == [ok |-> FALSE, isArray |-> FALSE, elems |-> <<>>]

\* no call of getPredictions in the step just taken
NoGet ==
    [called |-> FALSE, threw |-> FALSE, deviceId |-> "", day |-> 0,
     row |-> NoRow, null |-> TRUE, json |-> NoJson]

\* the results getPredictions(deviceId) can have when the query succeeds
GetOutcomes(deviceId) ==
    IF TodaysPredictions(deviceId, now) = {}
    THEN {GetResult(deviceId, now, NoRow, TRUE, NoJson, FALSE)}
    ELSE {LET json == JSONparse(r.predictedValues) IN
          IF json.ok
          THEN GetResult(deviceId, now, r.id, FALSE, json, FALSE)
          ELSE GetResult(deviceId, now, r.id, TRUE, NoJson, TRUE)
            : r \in Latest(TodaysPredictions(deviceId, now))}

\* getPredictions(deviceId) when the query succeeds
getPredictions(deviceId) ==
    /\ \E result \in GetOutcomes(deviceId) : lastGet' = result
    /\ UNCHANGED <<now, espDevices, deviceReadings, halfHourAverages, predictions,
                   provenance, batch, regen, selection,
                   conversion, response>>
    /\ lastAggregation' = NoAggregation

\* getPredictions(deviceId) when the query throws: the catch returns null
getPredictionsError(deviceId) ==
    /\ lastGet' = GetResult(deviceId, now, NoRow, TRUE, NoJson, TRUE)
    /\ UNCHANGED <<now, espDevices, deviceReadings, halfHourAverages, predictions,
                   provenance, batch, regen, selection,
                   conversion, response>>
    /\ lastAggregation' = NoAggregation


----------------------------------------------------------------------------
(* The environment: devices, readings, the predictor, the clock *)

Sites == {"S1", "S2"}
RegistrationOrder(deviceId) == IF deviceId = "S1" THEN 1 ELSE 2
\* a device id no row of esp_devices has
UnknownDevice == "S9"

\* the day the model starts on, and the time of day of the daily trigger
FirstDay == DaysFromCivil(2026, 1, 12)
StartSec == 2 * 3600

\* readings that may be in device_readings: on the eve of the first day and
\* on the first day, either side of a slot boundary
Reading(id, deviceId, day, minute, road1, road2) ==
    [id |-> id, deviceId |-> deviceId,
     road1JamPercent |-> road1, road2JamPercent |-> road2,
     timestamp |-> Stamp([day |-> day, sec |-> minute * 60])]

InitialReadings ==
    {Reading(1, "S1", FirstDay - 1, 29, 80, 81),
     Reading(2, "S1", FirstDay - 2, 435, 100, 100)}

\* A reply of ai() is described by its shape: ok = FALSE is the service
\* failure; otherwise the content is, according to wrap,
\*   "none"      no content at all,
\*   "prose"     words only,
\*   "bare"      a JSON array and nothing else,
\*   "padded"    the array between white space,
\*   "embedded"  the array among words of prose,
\* and the array has n elements, each the number base, but for the element at
\* pos (0: none), which is the token odd.
ReplyOf(wrap, n, base, pos, odd) ==
    [ok |-> TRUE, wrap |-> wrap, n |-> n, base |-> base, pos |-> pos, odd |-> odd]

Unreachable ==
    [ok |-> FALSE, wrap |-> "none", n |-> 0, base |-> 0, pos |-> 0, odd |-> Null]

\* the elements of the reply's array
ReplyElems(reply) ==
    [i \in 1..reply.n |-> IF i = reply.pos THEN reply.odd ELSE Num(reply.base)]

\* result.choices[0].message.content of the reply
Content(reply) ==
    CASE reply.wrap = "none"     -> <<>>
      [] reply.wrap = "prose"    -> <<Word, Space, Word>>
      [] reply.wrap = "scalar"   -> <<Num(reply.base)>>
      [] reply.wrap = "bare"     -> ArrayText(ReplyElems(reply))
      [] reply.wrap = "padded"   -> <<Space>> \o ArrayText(ReplyElems(reply)) \o <<Space>>
      [] reply.wrap = "embedded" ->
            <<Word, Space, Word, Space>> \o ArrayText(ReplyElems(reply)) \o <<Space, Word>>

\* 48 times 100
ValidReply == ReplyOf("bare", NumSlots, Tenths(100), 0, Null)
\* 48 elements: "not a number", then 47 times 101
MalformedReply == ReplyOf("bare", NumSlots, Tenths(101), 1, Str)

\* the replies the predictor gives in the lifecycle specification
DriverReplies == {ValidReply, MalformedReply}

----------------------------------------------------------------------------
(* processAllDevicePredictions, driven by the scheduled handler *)

IdleBatch ==
    [pc |-> "idle", run |-> 0, devices |-> <<>>, idx |-> 0,
     predictedValues |-> <<>>, reply |-> Unreachable,
     outcome |-> <<>>, listFailed |-> FALSE]

\* SELECT * FROM esp_devices: the devices in the order of their rowids, which
\* is the order of registration
RECURSIVE ListOf(_)
ListOf(S) ==
    IF S = {} THEN <<>>
    ELSE LET d == CHOOSE x \in S : \A y \in S : RegistrationOrder(x) <= RegistrationOrder(y)
         IN  <<d>> \o ListOf(S \ {d})

\* pipelines started so far
Started ==
    batch.run + Cardinality({r \in DOMAIN regen : regen[r].pc # "idle"})

\* the pipelines that have started for a device and have not yet stored or failed
InFlight(deviceId) ==
    {[kind |-> "batch", n |-> batch.run] : x \in
        {y \in {1} : /\ batch.pc \in {"calculate", "generate", "store"}
                    /\ batch.devices[batch.idx] = deviceId}}
    \cup {[kind |-> "regen", n |-> r] : r \in
        {q \in DOMAIN regen : /\ regen[q].pc \in {"generate", "store"}
                              /\ regen[q].deviceId = deviceId}}

\* (mutant) the loop steps over every other device
NextDeviceSkipping(b) ==
    IF b.idx + 1 < Len(b.devices)
    THEN [b EXCEPT !.pc = "calculate", !.idx = b.idx + 2, !.predictedValues = <<>>]
    ELSE [b EXCEPT !.pc = "done", !.predictedValues = <<>>]

\* the loop moves on to the next device, or the run completes
NextDevice(b) ==
    IF b.idx < Len(b.devices)
    THEN [b EXCEPT !.pc = "calculate", !.idx = b.idx + 1, !.predictedValues = <<>>]
    ELSE [b EXCEPT !.pc = "done", !.predictedValues = <<>>]

\* (mutant) the catch sits around the loop: the error is logged and the loop ends
DeviceErrorEndsLoop(b) ==
    [b EXCEPT !.pc = "done", !.outcome[b.idx] = "failed", !.predictedValues = <<>>]

\* (mutant) no catch around a device's steps: the error ends the run
DeviceErrorEscapes(b) ==
    [b EXCEPT !.pc = "failed", !.outcome[b.idx] = "failed", !.predictedValues = <<>>]

\* catch (deviceError): log, continue with the other devices
DeviceError(b) ==
    NextDevice([b EXCEPT !.outcome[b.idx] = "failed"])

\* the device's three steps completed
DeviceCompleted(b) ==
    NextDevice([b EXCEPT !.outcome[b.idx] = "stored"])

\* the trigger fires and the devices are listed
StartRun ==
    /\ batch.pc \in {"idle", "done", "failed"}
    /\ Started < MaxPipelines
    /\ batch' = NextDevice([pc |-> "devices", run |-> batch.run + 1,
                            devices |-> ListOf(espDevices), idx |-> 0,
                            predictedValues |-> <<>>, reply |-> Unreachable,
                            outcome |-> [i \in 1..Cardinality(espDevices) |-> "pending"],
                            listFailed |-> FALSE])
    /\ UNCHANGED <<now, espDevices, deviceReadings, halfHourAverages, predictions,
                   provenance, regen, selection,
                   conversion, response>>
    /\ lastGet' = NoGet
    /\ lastAggregation' = NoAggregation

\* the trigger fires and listing the devices throws: the outer catch rethrows
StartRunListFails ==
    /\ batch.pc \in {"idle", "done", "failed"}
    /\ Started < MaxPipelines
    /\ batch' = [pc |-> "failed", run |-> batch.run + 1,
                 devices |-> <<>>, idx |-> 0,
                 predictedValues |-> <<>>, reply |-> Unreachable,
                 outcome |-> <<>>, listFailed |-> TRUE]
    /\ UNCHANGED <<now, espDevices, deviceReadings, halfHourAverages, predictions,
                   provenance, regen, selection,
                   conversion, response>>
    /\ lastGet' = NoGet
    /\ lastAggregation' = NoAggregation

\* await calculateHalfHourAverages(device.deviceId)
BatchCalculate ==
    /\ batch.pc = "calculate"
    /\ halfHourAverages' = calculateHalfHourAverages(batch.devices[batch.idx], now)
    /\ batch' = [batch EXCEPT !.pc = "generate"]
    /\ UNCHANGED <<now, espDevices, deviceReadings, predictions,
                   provenance, regen, selection,
                   conversion, response>>
    /\ lastGet' = NoGet
    /\ lastAggregation' = AggregationResult(batch.devices[batch.idx], now, FALSE)

\* calculateHalfHourAverages throws: in the select (count = 0) or in the
\* insert that follows `count` successful ones
BatchCalculateFails(count) ==
    /\ batch.pc = "calculate"
    /\ count \in 0..SlotCount(batch.devices[batch.idx], now)
    /\ count < SlotCount(batch.devices[batch.idx], now) \/ count = 0
    /\ halfHourAverages' =
          halfHourAverages \cup AverageRows(batch.devices[batch.idx], now, count)
    /\ batch' = DeviceError(batch)
    /\ UNCHANGED <<now, espDevices, deviceReadings, predictions,
                   provenance, regen, selection,
                   conversion, response>>
    /\ lastGet' = NoGet
    /\ lastAggregation' = AggregationResult(batch.devices[batch.idx], now, TRUE)

\* const predictedValues = await generatePredictions(device.deviceId)
BatchGenerate(reply) ==
    /\ batch.pc = "generate"
    /\ reply.ok
    /\ batch.devices[batch.idx] \in espDevices
    /\ batch' = [batch EXCEPT !.pc = "store",
                              !.reply = reply,
                              !.predictedValues = validatedPredictions(Content(reply))]
    /\ UNCHANGED <<now, espDevices, deviceReadings, halfHourAverages, predictions,
                   provenance, regen, selection,
                   conversion, response>>
    /\ lastGet' = NoGet
    /\ lastAggregation' = NoAggregation

\* generatePredictions throws: a query of the dataset or of the device
\* fails, or the predictor's response is not ok
BatchGenerateFails ==
    /\ batch.pc = "generate"
    /\ batch' = DeviceError(batch)
    /\ UNCHANGED <<now, espDevices, deviceReadings, halfHourAverages, predictions,
                   provenance, regen, selection,
                   conversion, response>>
    /\ lastGet' = NoGet
    /\ lastAggregation' = NoAggregation

\* await storePredictions(device.deviceId, predictedValues)
BatchStore ==
    /\ batch.pc = "store"
    /\ predictions' = storePredictions(batch.devices[batch.idx], batch.predictedValues, now)
    /\ provenance' = provenance @@
          (NextId(predictions) :>
              [kind |-> "batch", n |-> batch.run, reply |-> batch.reply,
               alongside |-> InFlight(batch.devices[batch.idx])
                                \ {[kind |-> "batch", n |-> batch.run]}])
    /\ batch' = DeviceCompleted(batch)
    /\ UNCHANGED <<now, espDevices, deviceReadings, halfHourAverages,
                   regen, selection,
                   conversion, response>>
    /\ lastGet' = NoGet
    /\ lastAggregation' = NoAggregation

\* storePredictions throws
BatchStoreFails ==
    /\ batch.pc = "store"
    /\ batch' = DeviceError(batch)
    /\ UNCHANGED <<now, espDevices, deviceReadings, halfHourAverages, predictions,
                   provenance, regen, selection,
                   conversion, response>>
    /\ lastGet' = NoGet
    /\ lastAggregation' = NoAggregation


----------------------------------------------------------------------------
(* POST /:deviceId/regenerate *)

Requests == 1..MaxPipelines

IdleRequest ==
    [pc |-> "idle", deviceId |-> UnknownDevice, predictedValues |-> <<>>,
     reply |-> Unreachable, status |-> 0]

\* the handler's responses
Respond(q, status) == [q EXCEPT !.pc = "responded", !.status = status, !.predictedValues = <<>>]

\* the request arrives for a registered device: the pipeline starts
RegenRequest(r, deviceId) ==
    /\ regen[r].pc = "idle"
    /\ \A q \in 1..(r - 1) : regen[q].pc # "idle"
    /\ Started < MaxPipelines
    /\ deviceId \in espDevices
    /\ regen' = [regen EXCEPT ![r] = [@ EXCEPT !.pc = "generate", !.deviceId = deviceId]]
    /\ UNCHANGED <<now, espDevices, deviceReadings, halfHourAverages, predictions,
                   provenance, batch, selection,
                   conversion, response>>
    /\ lastGet' = NoGet
    /\ lastAggregation' = NoAggregation

\* the request names no registered device: 404 "Device not found"
RegenRequestUnknown(r, deviceId) ==
    /\ regen[r].pc = "idle"
    /\ \A q \in 1..(r - 1) : regen[q].pc # "idle"
    /\ Started < MaxPipelines
    /\ deviceId \notin espDevices
    /\ regen' = [regen EXCEPT ![r] = Respond([@ EXCEPT !.deviceId = deviceId], 404)]
    /\ UNCHANGED <<now, espDevices, deviceReadings, halfHourAverages, predictions,
                   provenance, batch, selection,
                   conversion, response>>
    /\ lastGet' = NoGet
    /\ lastAggregation' = NoAggregation

\* const predictedValues = await generatePredictions(deviceId)
RegenGenerate(r, reply) ==
    /\ regen[r].pc = "generate"
    /\ reply.ok
    /\ regen' = [regen EXCEPT ![r] =
                    [@ EXCEPT !.pc = "store",
                              !.reply = reply,
                              !.predictedValues = validatedPredictions(Content(reply))]]
    /\ UNCHANGED <<now, espDevices, deviceReadings, halfHourAverages, predictions,
                   provenance, batch, selection,
                   conversion, response>>
    /\ lastGet' = NoGet
    /\ lastAggregation' = NoAggregation

\* generatePredictions throws: 500
RegenGenerateFails(r) ==
    /\ regen[r].pc = "generate"
    /\ regen' = [regen EXCEPT ![r] = Respond(@, 500)]
    /\ UNCHANGED <<now, espDevices, deviceReadings, halfHourAverages, predictions,
                   provenance, batch, selection,
                   conversion, response>>
    /\ lastGet' = NoGet
    /\ lastAggregation' = NoAggregation

\* await storePredictions(deviceId, predictedValues): 200
RegenStore(r) ==
    /\ regen[r].pc = "store"
    /\ predictions' = storePredictions(regen[r].deviceId, regen[r].predictedValues, now)
    /\ provenance' = provenance @@
          (NextId(predictions) :>
              [kind |-> "regen", n |-> r, reply |-> regen[r].reply,
               alongside |-> InFlight(regen[r].deviceId) \ {[kind |-> "regen", n |-> r]}])
    /\ regen' = [regen EXCEPT ![r] = Respond(@, 200)]
    /\ UNCHANGED <<now, espDevices, deviceReadings, halfHourAverages,
                   batch, selection,
                   conversion, response>>
    /\ lastGet' = NoGet
    /\ lastAggregation' = NoAggregation

\* storePredictions throws: 500
RegenStoreFails(r) ==
    /\ regen[r].pc = "store"
    /\ regen' = [regen EXCEPT ![r] = Respond(@, 500)]
    /\ UNCHANGED <<now, espDevices, deviceReadings, halfHourAverages, predictions,
                   provenance, batch, selection,
                   conversion, response>>
    /\ lastGet' = NoGet
    /\ lastAggregation' = NoAggregation

----------------------------------------------------------------------------
(* The clock *)

\* a second passes
Tick ==
    /\ now.steps < MaxClock
    /\ now' = [now EXCEPT !.sec = now.sec + 1, !.steps = now.steps + 1]
    /\ UNCHANGED <<espDevices, deviceReadings, halfHourAverages, predictions,
                   provenance, batch, regen, selection,
                   conversion, response>>
    /\ lastGet' = NoGet
    /\ lastAggregation' = NoAggregation

\* midnight passes
NextDay ==
    /\ now.steps < MaxClock
    /\ now' = [day |-> now.day + 1, sec |-> StartSec, steps |-> now.steps + 1]
    /\ UNCHANGED <<espDevices, deviceReadings, halfHourAverages, predictions,
                   provenance, batch, regen, selection,
                   conversion, response>>
    /\ lastGet' = NoGet
    /\ lastAggregation' = NoAggregation

----------------------------------------------------------------------------
(* The lifecycle specification *)

NoSelection ==
    [called |-> FALSE, deviceId |-> UnknownDevice, at |-> [day |-> 0, sec |-> 0],
     sameDayLastYears |-> <<>>,
     lastSevenDays |-> [from |-> 0, to |-> 0, rows |-> {}],
     weekdayPatterns |-> <<>>]

Init ==
    /\ now = [day |-> FirstDay, sec |-> StartSec, steps |-> 0]
    /\ espDevices = Sites
    /\ deviceReadings = InitialReadings
    /\ halfHourAverages = {}
    /\ predictions = {}
    /\ provenance = <<>>
    /\ batch = IdleBatch
    /\ regen = [r \in Requests |-> IdleRequest]
    /\ lastGet = NoGet
    /\ selection = NoSelection
    /\ lastAggregation = NoAggregation
    /\ conversion = NoConversion
    /\ response = NoResponse

Next ==
    \/ StartRun
    \/ StartRunListFails
    \/ BatchCalculate
    \/ \E count \in 0..NumSlots : BatchCalculateFails(count)
    \/ \E reply \in DriverReplies : BatchGenerate(reply)
    \/ BatchGenerateFails
    \/ BatchStore
    \/ BatchStoreFails
    \/ \E r \in Requests, deviceId \in Sites : RegenRequest(r, deviceId)
    \/ \E r \in Requests : RegenRequestUnknown(r, UnknownDevice)
    \/ \E r \in Requests, reply \in DriverReplies : RegenGenerate(r, reply)
    \/ \E r \in Requests : RegenGenerateFails(r)
    \/ \E r \in Requests : RegenStore(r)
    \/ \E r \in Requests : RegenStoreFails(r)
    \/ \E deviceId \in Sites : getPredictions(deviceId)
    \/ \E deviceId \in Sites : getPredictionsError(deviceId)
    \/ Tick
    \/ NextDay

Spec == Init /\ [][Next]_vars


----------------------------------------------------------------------------
(* Properties of the lifecycle *)

\* the numbers a consumer reads out of a predictions row
RowValues(r) ==
    LET j == JSONparse(r.predictedValues) IN [i \in DOMAIN j.elems |-> j.elems[i].v]

\* an integer percentage, in tenths
IsPercentage(v) == v % 10 = 0 /\ v >= Tenths(0) /\ v <= Tenths(100)

\* the rows a pipeline wrote for a device
RowsBy(kind, n, deviceId) ==
    {r \in predictions :
        r.espId = deviceId /\ provenance[r.id].kind = kind /\ provenance[r.id].n = n}

ReturnedValues ==
    [i \in DOMAIN lastGet.json.elems |-> lastGet.json.elems[i].v]

\* the record stored last for the device the call asked about
LastStored ==
    LET mine == {r \in predictions : r.espId = lastGet.deviceId} IN
    {r \in mine : \A q \in mine : q.id <= r.id}

\* C2: when the predictor returned a valid 48-element array (48 times 100)
\* and the pipeline stored it, a subsequent getPredictions for the same device
\* returns the same 48 values.  (Violated: the record is stored for tomorrow,
\* the retrieval reads today.)
C2_StoredValidArrayIsRetrieved ==
    (lastGet.called /\ ~lastGet.threw) =>
        \A r \in LastStored :
            provenance[r.id].reply = ValidReply =>
                /\ ~lastGet.null
                /\ ReturnedValues = [i \in 1..NumSlots |-> Tenths(100)]

\* the rows a getPredictions call of the step just taken had to choose from
AskedRows ==
    {r \in predictions :
        r.espId = lastGet.deviceId /\ r.predictionDate = Stamp(Midnight(lastGet.day))}

\* C3: getPredictions returns the values of the most recently generated record
\* of the (site, target date) pair, and null when the pair has no record.
C3_GetReturnsLatestOrNull ==
    lastGet.called =>
        /\ AskedRows = {} => lastGet.null /\ lastGet.row = NoRow
        /\ (AskedRows # {} /\ ~lastGet.threw) =>
              /\ ~lastGet.null
              /\ \E r \in AskedRows :
                    /\ r.id = lastGet.row
                    /\ \A q \in AskedRows : q.generatedAt <= r.generatedAt
                    /\ lastGet.json.isArray
                    /\ [i \in DOMAIN lastGet.json.elems |-> lastGet.json.elems[i].v]
                          = RowValues(r)

\* a call that had two records of different generation times to choose from
C3_Witness ==
    /\ lastGet.called
    /\ ~lastGet.null
    /\ \E r, q \in AskedRows : r.generatedAt < q.generatedAt

\* C4: when two runs of the daily batch on the same day have each stored a
\* record for a device, there are two records for that (device, target date)
\* and retrieval for the pair returns the one the second run generated.
\* (Violated: both records can carry the same generated_at second, and the
\* query has no further ordering.)
C4_SecondRunIsRetrieved ==
    \A d \in Sites :
        LET first  == RowsBy("batch", 1, d)
            second == RowsBy("batch", 2, d)
        IN  (first # {} /\ second # {}
                /\ \A r \in first, q \in second : r.predictionDate = q.predictionDate) =>
              /\ Cardinality(first \cup second) = 2
              /\ (/\ lastGet.called
                  /\ ~lastGet.threw
                  /\ lastGet.deviceId = d
                  /\ AskedRows = first \cup second) =>
                    \E q \in second : lastGet.row = q.id

\* the run has ended, one way or the other
RunEnded == batch.pc \in {"done", "failed"}

\* C5: in one run of the driver, a device whose pipeline fails gets no record
\* from that run, and every other listed device is still processed to
\* completion (its pipeline stores its record or fails on its own).
C5_FailureIsolatedPerDevice ==
    (RunEnded /\ ~batch.listFailed) =>
        /\ Len(batch.devices) = Cardinality(espDevices)
        /\ \A i \in DOMAIN batch.devices :
              /\ batch.outcome[i] \in {"stored", "failed"}
              /\ batch.outcome[i] = "failed" =>
                    RowsBy("batch", batch.run, batch.devices[i]) = {}
              /\ batch.outcome[i] = "stored" =>
                    Cardinality(RowsBy("batch", batch.run, batch.devices[i])) = 1

\* a run in which the first device failed and the second one stored its record
C5_Witness ==
    /\ batch.pc = "done"
    /\ batch.outcome[1] = "failed"
    /\ batch.outcome[2] = "stored"

\* C6: the driver ends with a failure if and only if listing the devices
\* failed; no failure inside a device's pipeline escapes it.
C6_OnlyListingFailureEscapes ==
    RunEnded => (batch.pc = "failed" <=> batch.listFailed)

\* a run that ended normally although both devices failed
C6_Witness ==
    /\ batch.pc = "done"
    /\ \A i \in DOMAIN batch.devices : batch.outcome[i] = "failed"

----------------------------------------------------------------------------
(* The decode specification: one regeneration request, and every reply of
   DecodeReplies as the predictor's answer *)

ArrayWraps   == {"bare", "padded", "embedded"}
ReplyLengths == {0, 3, NumSlots - 1, NumSlots, NumSlots + 1}
\* 0, 100, 12.5 and 50.4
ReplyBases   == {Tenths(0), Tenths(100), Tenths(12) + 5, Tenths(50) + 4}
\* "not a number", null, true, "42", "101", 101, -1, -0.4, 100.4, 99.5, 0.5
OddElements  ==
    {Str, Null, True, NumStr(Tenths(42)), NumStr(Tenths(101)), Num(Tenths(101)),
     Num(-Tenths(1)), Num(-4), Num(Tenths(100) + 4), Num(Tenths(99) + 5), Num(5)}
OddPositions == {1, NumSlots \div 2, NumSlots}

DecodeReplies ==
    {ReplyOf(w, 0, 0, 0, Null) : w \in {"none", "prose"}}
        \cup {ReplyOf("scalar", 0, b, 0, Null) : b \in ReplyBases}
        \cup {ReplyOf(w, n, b, 0, Null) : w \in ArrayWraps, n \in ReplyLengths, b \in ReplyBases}
        \cup {rp \in {ReplyOf(w, n, b, pos, odd) :
                        w \in ArrayWraps, n \in ReplyLengths, b \in ReplyBases,
                        pos \in OddPositions, odd \in OddElements} : rp.pos <= rp.n}

NextDecode ==
    \/ \E deviceId \in Sites : RegenRequest(1, deviceId)
    \/ \E reply \in DecodeReplies : RegenGenerate(1, reply)
    \/ RegenGenerateFails(1)
    \/ RegenStore(1)
    \/ RegenStoreFails(1)

SpecDecode == Init /\ [][NextDecode]_vars

\* the reply a stored record was made from
ReplyOfRow(r) == provenance[r.id].reply

\* the reply as a whole is the text of a JSON array (white space around it is
\* trimmed) of NumSlots elements
IsArrayOf48(reply) == reply.wrap \in {"bare", "padded"} /\ reply.n = NumSlots

\* the reply is no array at all, or an array of another length, alone or
\* among other text
IsNoArrayOf48(reply) ==
    reply.wrap \in {"none", "prose", "scalar"} \/ reply.n # NumSlots

\* C7: when the predictor's response is not an array of exactly 48 elements,
\* the generation step does not fail: it hands on 48 zeros, and the record
\* stored from it holds 48 zeros.
C7_WrongShapeStoresZeros ==
    /\ \A r \in predictions :
          IsNoArrayOf48(ReplyOfRow(r)) =>
              JSONparse(r.predictedValues) =
                  [ok |-> TRUE, isArray |-> TRUE,
                   elems |-> [i \in 1..NumSlots |-> Num(0)]]
    /\ \A q \in Requests :
          (regen[q].reply.ok /\ IsNoArrayOf48(regen[q].reply)) =>
              /\ regen[q].pc \in {"store", "responded"}
              /\ regen[q].pc = "store" =>
                    regen[q].predictedValues = [i \in 1..NumSlots |-> 0]

\* a record stored from a reply of three elements, such as [100,100,100]
C7_Witness ==
    \E r \in predictions :
        /\ ReplyOfRow(r).wrap = "bare"
        /\ ReplyOfRow(r).n = 3
        /\ ReplyOfRow(r).base > 0

\* the element is a JSON number within [0,100]
IsInRangeNumber(e) == e.k = "num" /\ e.v >= Tenths(0) /\ e.v <= Tenths(100)

\* C8 as stated: for a 48-element response, an element that is no number or
\* lies outside [0,100] becomes 0 and every other element keeps its position
\* and value.  (Violated: a fractional element is rounded.)
C8_OtherElementsKeepTheirValue ==
    \A r \in predictions :
        IsArrayOf48(ReplyOfRow(r)) =>
            LET elems  == ReplyElems(ReplyOfRow(r))
                stored == RowValues(r)
            IN  /\ Len(stored) = NumSlots
                /\ \A i \in 1..NumSlots :
                      IF IsInRangeNumber(elems[i])
                      THEN stored[i] = elems[i].v
                      ELSE elems[i].k \in {"num", "text"} => stored[i] = 0

\* the number the code converts an element to; "text" has none (NaN)
HasNumber(e) == e.k # "text"
NumberOf(e) ==
    CASE e.k \in {"num", "numstr"} -> e.v
      [] e.k = "true"              -> Tenths(1)
      [] e.k = "null"              -> Tenths(0)

\* C8, amended: for a 48-element response, an element whose conversion to a
\* number fails or lies outside [0,100] becomes 0; every other element keeps
\* its position and is rounded to the nearest integer (halves upwards), so an
\* integer keeps its value; the generation step never fails on an element.
C8_OtherElementsAreRounded ==
    /\ \A r \in predictions :
          IsArrayOf48(ReplyOfRow(r)) =>
              LET elems  == ReplyElems(ReplyOfRow(r))
                  stored == RowValues(r)
              IN  /\ Len(stored) = NumSlots
                  /\ \A i \in 1..NumSlots :
                        IF HasNumber(elems[i])
                              /\ NumberOf(elems[i]) >= Tenths(0)
                              /\ NumberOf(elems[i]) <= Tenths(100)
                        THEN /\ stored[i] % 10 = 0
                             /\ stored[i] - 5 <= NumberOf(elems[i])
                             /\ NumberOf(elems[i]) < stored[i] + 5
                        ELSE stored[i] = 0
    /\ \A q \in Requests :
          (regen[q].reply.ok /\ IsArrayOf48(regen[q].reply)) =>
              regen[q].pc \in {"store", "responded"}

\* a record stored from 48 elements, 12.5 everywhere but for one "not a number"
C8_Witness ==
    \E r \in predictions :
        /\ IsArrayOf48(ReplyOfRow(r))
        /\ ReplyOfRow(r).pos > 0
        /\ ReplyOfRow(r).odd = Str
        /\ ReplyOfRow(r).base % 10 # 0

\* C9: when the predictor's text contains a valid 48-element numeric array
\* among other text, the stored values are those 48 numbers.  (Violated: the
\* whole text is handed to JSON.parse, and the zeros are stored.)
C9_EmbeddedArrayIsExtracted ==
    \A r \in predictions :
        LET reply == ReplyOfRow(r) IN
        (/\ reply.wrap = "embedded"
         /\ reply.n = NumSlots
         /\ reply.pos = 0
         /\ reply.base % 10 = 0
         /\ IsInRangeNumber(Num(reply.base))) =>
            RowValues(r) = [i \in 1..NumSlots |-> reply.base]

----------------------------------------------------------------------------
(* The selector specification: getHistoricalDataset at several instants over
   several states of half_hour_averages *)

\* the instants: an ordinary day, a leap day, ends of months, a mid-month
SelectorDays ==
    {FirstDay, DaysFromCivil(2024, 2, 29), DaysFromCivil(2026, 3, 31),
     DaysFromCivil(2026, 4, 30), DaysFromCivil(2026, 8, 31), DaysFromCivil(2026, 5, 15)}

\* the times of day of the call: midnight, the daily trigger, the last second
SelectorSeconds == {0, StartSec, SecondsPerDay - 1}

\* a row of half_hour_averages
AverageOn(id, deviceId, day, slot) ==
    [id            |-> id,
     espId         |-> deviceId,
     timestamp     |-> Stamp(Midnight(day)) + slot * 1800,
     averageValue  |-> 40,
     halfHourIndex |-> slot]

\* a few days with data, the rest without
SparseAverages(day) ==
    {AverageOn(1, "S1", setFullYearBack(day, 1), 10),
     AverageOn(2, "S1", day - 14, 5),
     AverageOn(3, "S1", day - 8, 47),
     AverageOn(4, "S1", day - 7, 0),
     AverageOn(5, "S1", day - 3, 20),
     AverageOn(6, "S2", day - 1, 20)}

\* one row for each device on each of the last 40 days and today
DenseAverages(day) ==
    {AverageOn(2 * k + 1, "S1", day - k, 4) : k \in 0..40}
        \cup {AverageOn(2 * k + 2, "S2", day - k, 4) : k \in 0..40}

\* Math.floor(Math.random() * 30), three of its values
RandomDraws == {0, 14, 29}

\* getHistoricalDataset(deviceId) returns
Select(deviceId, rand1, rand2) ==
    /\ selection' =
          [called           |-> TRUE,
           deviceId         |-> deviceId,
           at               |-> [day |-> now.day, sec |-> now.sec],
           sameDayLastYears |-> sameDayLastYears(deviceId, now),
           lastSevenDays    |-> lastSevenDays(deviceId, now),
           weekdayPatterns  |-> weekdayPatterns(deviceId, now, rand1, rand2)]
    /\ UNCHANGED <<now, espDevices, deviceReadings, halfHourAverages, predictions,
                   provenance, batch, regen,
                   conversion, response>>
    /\ lastGet' = NoGet
    /\ lastAggregation' = NoAggregation

InitSel ==
    /\ now \in {[day |-> d, sec |-> sec, steps |-> 0] :
                    d \in SelectorDays, sec \in SelectorSeconds}
    /\ espDevices = Sites
    /\ deviceReadings = {}
    /\ halfHourAverages \in {{}, SparseAverages(now.day), DenseAverages(now.day)}
    /\ predictions = {}
    /\ provenance = <<>>
    /\ batch = IdleBatch
    /\ regen = [r \in Requests |-> IdleRequest]
    /\ lastGet = NoGet
    /\ selection = NoSelection
    /\ lastAggregation = NoAggregation
    /\ conversion = NoConversion
    /\ response = NoResponse

NextSel ==
    \E deviceId \in Sites, rand1 \in RandomDraws, rand2 \in RandomDraws :
        Select(deviceId, rand1, rand2)

SpecSel == InitSel /\ [][NextSel]_vars

\* the calendar days a query's window reaches into, up to the day of the call
DaysOf(sample) ==
    IF sample.to = -1
    THEN (sample.from \div SecondsPerDay)..selection.at.day
    ELSE {d \in (sample.from \div SecondsPerDay)..((sample.to - 1) \div SecondsPerDay) : TRUE}

\* the calendar days a group samples
SampledDays(samples) == UNION {DaysOf(samples[i]) : i \in DOMAIN samples}

\* C10: whatever the instant and the stored data, the selector's three groups
\* sample 6 days (same day of prior years), 7 days (recency) and 8 days
\* (periodicity).  (Violated: the first group queries 3 days only.)
C10_GroupsSample6And7And8Days ==
    selection.called =>
        /\ Cardinality(SampledDays(selection.sameDayLastYears)) = 6
        /\ Cardinality(DaysOf(selection.lastSevenDays)) = 7
        /\ Cardinality(SampledDays(selection.weekdayPatterns)) = 8

\* the day of the same-day sample `years` back, by the calendar
YearsBefore(day, years) ==
    LET c == CivilFromDays(day) IN DaysFromCivil(c.y - years, c.m, c.d)

\* the day a query samples
DayOf(sample) == sample.from \div SecondsPerDay

\* C11: for each offset Y in 1..3 the first group holds the Gregorian same-day
\* sample Y years back and a second sample for that offset: the
\* secondary-calendar equivalent (about 11 days per year later than the
\* Gregorian day) or, in its place, the Gregorian day offset by a fixed number
\* of days; six sampled days in all.  (Violated: the selector makes the
\* Gregorian query only.)
C11_GroupAHasBothCalendars ==
    selection.called =>
        /\ Len(selection.sameDayLastYears) = 6
        /\ \A years \in 1..3 :
              \E i, j \in DOMAIN selection.sameDayLastYears :
                  /\ DayOf(selection.sameDayLastYears[i]) = YearsBefore(selection.at.day, years)
                  /\ DayOf(selection.sameDayLastYears[j]) >
                        YearsBefore(selection.at.day, years)
                  /\ DayOf(selection.sameDayLastYears[j]) <=
                        YearsBefore(selection.at.day, years) + 45

\* the stored rows of a device on the days first..last
RowsOnDays(deviceId, first, last) ==
    {a \in halfHourAverages :
        /\ a.espId = deviceId
        /\ a.timestamp \div SecondsPerDay >= first
        /\ a.timestamp \div SecondsPerDay <= last}

\* C12: the second group is exactly the device's rows of the 7 calendar days
\* before the day of the call, at every time of day of the call.  (Violated:
\* the query starts 7 * 24 hours before the instant of the call and has no
\* upper limit.)
C12_GroupBIsTheLastSevenDays ==
    selection.called =>
        selection.lastSevenDays.rows =
            RowsOnDays(selection.deviceId, selection.at.day - 7, selection.at.day - 1)

\* the 15th of the month `months` before the month of `day`
FifteenthOfMonthBefore(day, months) ==
    LET c   == CivilFromDays(day)
        idx == c.y * 12 + (c.m - 1) - months
    IN  DaysFromCivil(idx \div 12, (idx % 12) + 1, 15)

\* C13: the two mid-month samples of the third group are the 15th of the
\* month before the month of the call and the 15th of the month before that.
\* (Violated: on the 29th, 30th or 31st setMonth overflows into the following
\* month.)
C13_MidMonthSamplesOfLastTwoMonths ==
    selection.called =>
        /\ DayOf(selection.weekdayPatterns[5]) = FifteenthOfMonthBefore(selection.at.day, 1)
        /\ DayOf(selection.weekdayPatterns[6]) = FifteenthOfMonthBefore(selection.at.day, 2)

\* all the queries of a call, the three groups together
AllSamples ==
    [i \in 1..(Len(selection.sameDayLastYears) + 1 + Len(selection.weekdayPatterns)) |->
        IF i <= Len(selection.sameDayLastYears) THEN selection.sameDayLastYears[i]
        ELSE IF i = Len(selection.sameDayLastYears) + 1 THEN selection.lastSevenDays
        ELSE selection.weekdayPatterns[i - Len(selection.sameDayLastYears) - 1]]

\* the timestamp lies in the window the query asked for
InWindow(timestamp, sample) ==
    timestamp >= sample.from /\ (sample.to = -1 \/ timestamp < sample.to)

\* C14: every record the selector returns is a stored HalfHourAverage of the
\* requested device within the window of the query that returned it, and a
\* window without stored records of the device contributes nothing.
C14_NoFabricatedRecords ==
    selection.called =>
        \A i \in DOMAIN AllSamples :
            /\ AllSamples[i].rows \subseteq halfHourAverages
            /\ \A a \in AllSamples[i].rows :
                  a.espId = selection.deviceId /\ InWindow(a.timestamp, AllSamples[i])
            /\ (\A a \in halfHourAverages :
                    a.espId = selection.deviceId => ~InWindow(a.timestamp, AllSamples[i]))
                  => AllSamples[i].rows = {}

\* a call over a table holding rows of both devices, in which one sampled day
\* has rows and another has none
C14_Witness ==
    /\ selection.called
    /\ \E a, b \in halfHourAverages : a.espId # b.espId
    /\ \E i, j \in DOMAIN AllSamples : AllSamples[i].rows # {} /\ AllSamples[j].rows = {}

----------------------------------------------------------------------------
(* The aggregator specification: calculateHalfHourAverages called directly,
   over several sets of readings *)

\* a reading taken at second `sec` of `day`
ReadingAtSecond(id, deviceId, day, sec, road1, road2) ==
    [id |-> id, deviceId |-> deviceId,
     road1JamPercent |-> road1, road2JamPercent |-> road2,
     timestamp |-> Stamp([day |-> day, sec |-> sec])]

\* readings around the borders of slots and of the aggregated day
ReadingPool ==
    {ReadingAtSecond(1, "S1", FirstDay - 1, 29 * 60, 80, 81),
     ReadingAtSecond(2, "S1", FirstDay - 1, 30 * 60, 10, 20),
     ReadingAtSecond(3, "S1", FirstDay - 1, 29 * 60 + 59, 0, 1),
     ReadingAtSecond(4, "S1", FirstDay - 1, SecondsPerDay - 1, 100, 100),
     ReadingAtSecond(5, "S1", FirstDay, 0, 50, 50),
     ReadingAtSecond(6, "S1", FirstDay - 2, SecondsPerDay - 1, 60, 60),
     ReadingAtSecond(7, "S2", FirstDay - 1, 0, 100, 99)}

\* a reading in every slot of the aggregated day
FullDayReadings ==
    {ReadingAtSecond(k + 1, "S2", FirstDay - 1, k * 1800 + 60 * (k % 30), 100, 2 * k + 6)
        : k \in 0..(NumSlots - 1)}

\* the rows of a device and day in a slot
SlotRecords(table, deviceId, day, slot) ==
    {a \in table :
        /\ a.espId = deviceId
        /\ a.timestamp \div SecondsPerDay = day
        /\ a.halfHourIndex = slot}

\* the model stops after MaxAggregations runs that inserted for a device and day
AggregationsLeft(deviceId) ==
    \A slot \in 0..(NumSlots - 1) :
        Cardinality(SlotRecords(halfHourAverages, deviceId, now.day - 1, slot))
            < MaxAggregations

\* await calculateHalfHourAverages(deviceId) returns
Aggregate(deviceId) ==
    /\ AggregationsLeft(deviceId)
    /\ halfHourAverages' = calculateHalfHourAverages(deviceId, now)
    /\ lastAggregation' = AggregationResult(deviceId, now, FALSE)
    /\ lastGet' = NoGet
    /\ UNCHANGED <<now, espDevices, deviceReadings, predictions, provenance, batch,
                   regen, selection, conversion, response>>

\* calculateHalfHourAverages throws: in the select (count = 0) or in the
\* insert that follows `count` successful ones
AggregateFails(deviceId, count) ==
    /\ AggregationsLeft(deviceId)
    /\ count \in 0..SlotCount(deviceId, now)
    /\ count < SlotCount(deviceId, now) \/ count = 0
    /\ halfHourAverages' = halfHourAverages \cup AverageRows(deviceId, now, count)
    /\ lastAggregation' = AggregationResult(deviceId, now, TRUE)
    /\ lastGet' = NoGet
    /\ UNCHANGED <<now, espDevices, deviceReadings, predictions, provenance, batch,
                   regen, selection, conversion, response>>

InitAgg ==
    /\ now = [day |-> FirstDay, sec |-> StartSec, steps |-> 0]
    /\ espDevices = Sites
    /\ deviceReadings \in (SUBSET ReadingPool) \cup {FullDayReadings}
    /\ halfHourAverages = {}
    /\ predictions = {}
    /\ provenance = <<>>
    /\ batch = IdleBatch
    /\ regen = [r \in Requests |-> IdleRequest]
    /\ lastGet = NoGet
    /\ selection = NoSelection
    /\ lastAggregation = NoAggregation
    /\ conversion = NoConversion
    /\ response = NoResponse

NextAgg ==
    \/ \E deviceId \in Sites : Aggregate(deviceId)
    \/ \E deviceId \in Sites, count \in 0..MaxInsertsBeforeFailure :
          AggregateFails(deviceId, count)

SpecAgg == InitAgg /\ [][NextAgg]_vars

\* the records the call of the step just taken inserted
Emitted == {a \in halfHourAverages : a.id > lastAggregation.before}

\* the readings of the device on the day the call aggregated
ReadingsOfDay(readings, deviceId, day) ==
    {r \in readings : r.deviceId = deviceId /\ r.timestamp \div SecondsPerDay = day}

AggregatedReadings ==
    ReadingsOfDay(deviceReadings, lastAggregation.deviceId, lastAggregation.day)

MinuteOfDay(timestamp) == (timestamp % SecondsPerDay) \div 60

\* the slot of a reading: floor(minuteOfDay / 30)
SlotOf(r) == MinuteOfDay(r.timestamp) \div 30

\* C15: one run of the aggregator emits at most 48 records, and every value
\* it emits lies in [0,100] (the readings' measurements being in [0,100]).
C15_AtMost48ValuesInRange ==
    lastAggregation.called =>
        /\ Cardinality(Emitted) <= NumSlots
        /\ \A a \in Emitted : a.averageValue >= 0 /\ a.averageValue <= 100

\* a run that emitted 48 records, one of them with the value 100
C15_Witness ==
    /\ lastAggregation.called
    /\ Cardinality(Emitted) = NumSlots
    /\ \E a \in Emitted : a.averageValue = 100

\* C16: the slot of a reading is floor(minuteOfDay / 30), in 0..47: every
\* reading of the aggregated day is accounted for in the record of that slot,
\* which is stamped with the slot's start, and every record emitted carries
\* the slot of some reading; minutes 29 and 30 fall into slots 0 and 1.
C16_SlotIsMinuteOfDayOver30 ==
    lastAggregation.called =>
        /\ \A a \in Emitted :
              /\ a.halfHourIndex \in 0..(NumSlots - 1)
              /\ a.timestamp =
                    lastAggregation.day * SecondsPerDay + a.halfHourIndex * 1800
              /\ \E r \in AggregatedReadings : SlotOf(r) = a.halfHourIndex
        /\ ~lastAggregation.threw =>
              \A r \in AggregatedReadings :
                  \E a \in Emitted : a.halfHourIndex = SlotOf(r)

\* a run over readings at minute 29 and at minute 30 of the day
C16_Witness ==
    /\ lastAggregation.called
    /\ ~lastAggregation.threw
    /\ \E r, q \in AggregatedReadings :
          MinuteOfDay(r.timestamp) = 29 /\ MinuteOfDay(q.timestamp) = 30
    /\ \E a, b \in Emitted : a.halfHourIndex = 0 /\ b.halfHourIndex = 1

\* twice the sum of the per-reading averages (road1 + road2) / 2
TwiceSumOfAverages(rs) == SumJam(rs)

C18_OneRecordPerNonEmptySlot ==
    (lastAggregation.called /\ ~lastAggregation.threw) =>
        /\ {a.halfHourIndex : a \in Emitted} = {SlotOf(r) : r \in AggregatedReadings}
        /\ Cardinality(Emitted) = Cardinality({SlotOf(r) : r \in AggregatedReadings})

\* a run over a day with two readings in one slot, a reading in another, and
\* slots without readings
C18_Witness ==
    /\ lastAggregation.called
    /\ ~lastAggregation.threw
    /\ Cardinality(Emitted) = 2
    /\ Cardinality(AggregatedReadings) = 3

\* C19: a run of the aggregator that returns leaves the readings and all the
\* records stored before as they were, and appends one record for each
\* non-empty slot of the device's day, whatever the table held already; so k
\* runs over unchanged readings leave k records for each such slot.
C19_RerunAppendsARecordPerSlot ==
    [][(lastAggregation'.called /\ ~lastAggregation'.threw) =>
          /\ deviceReadings' = deviceReadings
          /\ halfHourAverages \subseteq halfHourAverages'
          /\ \A slot \in 0..(NumSlots - 1) :
                Cardinality(SlotRecords(halfHourAverages', lastAggregation'.deviceId,
                                        lastAggregation'.day, slot))
                    = Cardinality(SlotRecords(halfHourAverages, lastAggregation'.deviceId,
                                              lastAggregation'.day, slot))
                        + (IF \E r \in ReadingsOfDay(deviceReadings,
                                                     lastAggregation'.deviceId,
                                                     lastAggregation'.day) :
                                  SlotOf(r) = slot
                           THEN 1 ELSE 0)]_vars

\* the second run for a device and day has returned: two records in a slot
C19_Witness ==
    /\ lastAggregation.called
    /\ ~lastAggregation.threw
    /\ Emitted # {}
    /\ \A a \in Emitted :
          Cardinality(SlotRecords(halfHourAverages, a.espId, lastAggregation.day,
                                  a.halfHourIndex)) = 2

----------------------------------------------------------------------------
(* The calendar resolver of the seeding script: convertToHijriEquivalent.
   The arithmetic Islamic calendar (30-year cycle of 354- and 355-day years)
   stands for the calendar of the Intl formatter. *)

\* day number of 1 Muharram 1 AH, less one
HijriEpoch == DaysFromCivil(622, 7, 18)

\* day number of a day of the Islamic calendar
FromHijri(y, m, d) ==
    HijriEpoch + (y - 1) * 354 + (3 + 11 * y) \div 30 + 29 * (m - 1) + m \div 2 + d

\* hijriFormatter.formatToParts(date): year, month and day
ToHijri(day) ==
    LET y     == (30 * (day - HijriEpoch - 1) + 10646) \div 10631
        prior == day - FromHijri(y, 1, 1)
        m     == (11 * prior + 330) \div 325
    IN  [year |-> y, month |-> m, day |-> day - FromHijri(y, m, 1) + 1]

maxAttempts == 400

\* new Date(getFullYear() - yearsBack - 1, getMonth(), getDate())
approximateGregorian(gregorianDate, yearsBack) ==
    setFullYearBack(gregorianDate, yearsBack + 1)

\* (mutant) the comparisons the other way round
SearchStepAway(test, target) ==
    IF      test.year  > target.year  THEN 1
    ELSE IF test.year  < target.year  THEN -1
    ELSE IF test.month > target.month THEN 1
    ELSE IF test.month < target.month THEN -1
    ELSE IF test.day   > target.day   THEN 1
    ELSE -1

\* the move of one iteration: back when the tested date is past the target,
\* forward when it is before it (or equal in year and month, and not past it)
SearchStep(test, target) ==
    IF      test.year  > target.year  THEN -1
    ELSE IF test.year  < target.year  THEN 1
    ELSE IF test.month > target.month THEN -1
    ELSE IF test.month < target.month THEN 1
    ELSE IF test.day   > target.day   THEN -1
    ELSE 1

\* one iteration of the while loop: return on a match, else move a day
SearchIteration(search, target) ==
    IF search.found THEN search
    ELSE IF ToHijri(search.date) = target
         THEN [found |-> TRUE, date |-> search.date]
         ELSE [found |-> FALSE,
               date  |-> search.date + SearchStep(ToHijri(search.date), target)]

\* `attempts` iterations of the loop, one after the other
RECURSIVE SearchIterations(_, _, _)
SearchIterations(search, target, attempts) ==
    IF attempts = 0 THEN search
    ELSE IF attempts = 1 THEN SearchIteration(search, target)
    ELSE CHOOSE result \in
             {SearchIterations(half, target, attempts - attempts \div 2) :
                 half \in {SearchIterations(search, target, attempts \div 2)}} : TRUE

\* the while loop: the matching date, or no date when the attempts are used up
HijriSearch(testDate, target) ==
    SearchIterations([found |-> FALSE, date |-> testDate], target, maxAttempts)

\* (same year and month, `yearsBack` years before)
targetHijri(gregorianDate, yearsBack) ==
    LET current == ToHijri(gregorianDate)
    IN  [year |-> current.year - yearsBack, month |-> current.month,
         day |-> current.day]

\* (mutant) the date the search stopped at is returned when attempts run out
convertToHijriEquivalentNearest(gregorianDate, yearsBack) ==
    LET found == HijriSearch(approximateGregorian(gregorianDate, yearsBack),
                             targetHijri(gregorianDate, yearsBack))
    IN  [called |-> TRUE, threw |-> FALSE, from |-> gregorianDate,
         yearsBack |-> yearsBack, date |-> found.date]

\* the outcome of a call: the date returned, or the Error thrown
convertToHijriEquivalent(gregorianDate, yearsBack) ==
    LET found == HijriSearch(approximateGregorian(gregorianDate, yearsBack),
                             targetHijri(gregorianDate, yearsBack))
    IN  [called |-> TRUE, threw |-> ~found.found, from |-> gregorianDate,
         yearsBack |-> yearsBack, date |-> IF found.found THEN found.date ELSE 0]

\* the days and year offsets the resolver is called with
ConversionDays == FirstDay..(FirstDay + MaxConversionDays - 1)
YearOffsets == 1..3

Convert ==
    /\ ~conversion.called
    /\ conversion' = convertToHijriEquivalent(conversion.from, conversion.yearsBack)
    /\ lastGet' = NoGet
    /\ lastAggregation' = NoAggregation
    /\ UNCHANGED <<now, espDevices, deviceReadings, halfHourAverages, predictions,
                   provenance, batch, regen, selection, response>>

InitHijri ==
    /\ now = [day |-> FirstDay, sec |-> StartSec, steps |-> 0]
    /\ espDevices = Sites
    /\ deviceReadings = {}
    /\ halfHourAverages = {}
    /\ predictions = {}
    /\ provenance = <<>>
    /\ batch = IdleBatch
    /\ regen = [r \in Requests |-> IdleRequest]
    /\ lastGet = NoGet
    /\ selection = NoSelection
    /\ lastAggregation = NoAggregation
    /\ response = NoResponse
    /\ \E gregorianDate \in ConversionDays, yearsBack \in YearOffsets :
          conversion = [called |-> FALSE, threw |-> FALSE, from |-> gregorianDate,
                        yearsBack |-> yearsBack, date |-> 0]

NextHijri == Convert

SpecHijri == InitHijri /\ [][NextHijri]_vars

\* C20: a date the resolver returns for (D, Y) converts to exactly D's year
\* of the secondary calendar less Y, D's month and D's day; when the 400
\* attempts are used up without such a date it throws, and returns no date.
C20_ReturnedDateIsTheTarget ==
    conversion.called =>
        LET current == ToHijri(conversion.from) IN
        /\ ~conversion.threw =>
              ToHijri(conversion.date) =
                  [year  |-> current.year - conversion.yearsBack,
                   month |-> current.month,
                   day   |-> current.day]
        /\ conversion.threw => conversion.date = 0

\* a date was returned for an offset of 3 years
C20_Witness ==
    /\ conversion.called
    /\ ~conversion.threw
    /\ conversion.yearsBack = 3
    /\ conversion.date < conversion.from - 3 * 350

----------------------------------------------------------------------------
(* Further properties of the lifecycle *)

\* C21: the predictions table is append-only: no step removes or changes a
\* stored record, and every store of the daily driver and of a regeneration
\* that completes adds one record.
C21_PredictionsAreAppendOnly ==
    [][/\ predictions \subseteq predictions'
       /\ (\/ batch.pc = "store" /\ batch'.outcome[batch.idx] = "stored"
           \/ \E r \in Requests : regen[r].pc = "store" /\ regen'[r].status = 200) =>
             /\ Cardinality(predictions') = Cardinality(predictions) + 1
             /\ \A r \in predictions' \ predictions :
                   \A q \in predictions : q.id # r.id]_vars

\* the driver and a regeneration have each stored a record for the same
\* device and target date
C21_Witness ==
    \E r, q \in predictions :
        /\ r.id # q.id
        /\ r.espId = q.espId
        /\ r.predictionDate = q.predictionDate
        /\ provenance[r.id].kind = "batch"
        /\ provenance[q.id].kind = "regen"

\* the records pipelines of the given kinds stored for a device on a day
StoredOn(kinds, deviceId, day) ==
    {r \in predictions :
        /\ r.espId = deviceId
        /\ r.generatedAt \div SecondsPerDay = day
        /\ provenance[r.id].kind \in kinds}

\* each pipeline of the given kinds that stored a record for a device on a
\* day has aggregated the device's readings of the day before
AggregatedBeforeStoring(kinds) ==
    \A d \in Sites, day \in FirstDay..(FirstDay + MaxClock) :
        \A q \in ReadingsOfDay(deviceReadings, d, day - 1) :
            Cardinality(SlotRecords(halfHourAverages, d, day - 1, SlotOf(q)))
                >= Cardinality(StoredOn(kinds, d, day))

\* C22: a manual regeneration runs the pipeline the daily driver runs for the
\* device: like a pipeline of the driver, a regeneration that stored a record
\* has left a HalfHourAverage record for every slot of yesterday that has a
\* reading.  (Violated: the route calls generatePredictions and
\* storePredictions only.)
C22_RegenerationRunsTheBatchPipeline ==
    AggregatedBeforeStoring({"batch", "regen"})

\* the pipeline that stored a record
PipelineOf(r) == [kind |-> provenance[r.id].kind, n |-> provenance[r.id].n]

\* two records of a device and target date whose pipelines ran concurrently:
\* the second pipeline was running when the first stored
ConcurrentPairs ==
    {pair \in predictions \X predictions :
        /\ pair[1].id < pair[2].id
        /\ pair[1].espId = pair[2].espId
        /\ pair[1].predictionDate = pair[2].predictionDate
        /\ PipelineOf(pair[2]) \in provenance[pair[1].id].alongside}

\* C23: when two pipelines for the same device run concurrently, both append
\* their record, and a retrieval that finds the two returns the record of the
\* pipeline that completed later.  (Violated: both records can carry the same
\* generated_at second, see C24.)
C23_LaterOfConcurrentRunsIsRetrieved ==
    /\ \A r, q \in Requests :
          (r # q /\ regen[r].status = 200 /\ regen[q].status = 200
               /\ regen[r].deviceId = regen[q].deviceId) =>
             Cardinality(RowsBy("regen", r, regen[r].deviceId)
                            \cup RowsBy("regen", q, regen[r].deviceId)) = 2
    /\ \A pair \in ConcurrentPairs :
          (/\ lastGet.called
           /\ ~lastGet.threw
           /\ lastGet.deviceId = pair[1].espId
           /\ AskedRows = {pair[1], pair[2]}) => lastGet.row = pair[2].id

\* two calls of getPredictions, one right after the other, for the same device
\* on the same day
RepeatedGet ==
    /\ lastGet.called /\ ~lastGet.threw
    /\ lastGet'.called /\ ~lastGet'.threw
    /\ lastGet'.deviceId = lastGet.deviceId
    /\ lastGet'.day = lastGet.day

\* C24: when records of one (device, target date) have equal generation
\* timestamps, getPredictions returns the same one of them on every call.
\* (Violated: the query orders by generated_at only.)
C24_TieIsBrokenDeterministically ==
    [][(RepeatedGet /\ \E r, q \in AskedRows : r.id # q.id /\ r.generatedAt = q.generatedAt)
          => lastGet'.row = lastGet.row]_vars

----------------------------------------------------------------------------
(* The retrieval route: GET /:deviceId, over stored rows of every shape *)

Response(deviceId, status, error) ==
    [called |-> TRUE, deviceId |-> deviceId, status |-> status, error |-> error]

\* !predictions for the value JSON.parse returned
IsFalsy(json) ==
    /\ ~json.isArray
    /\ json.elems[1].k = "null" \/ json.elems[1] = Num(0)

\* the handler's response to what getPredictions returned
RouteResponse(deviceId, result) ==
    IF result.null \/ IsFalsy(result.json)
    THEN Response(deviceId, 404, "No predictions available")
    ELSE IF ~result.json.isArray \/ Len(result.json.elems) # NumSlots
    THEN Response(deviceId, 500, "Invalid predictions data")
    ELSE Response(deviceId, 200, "")

\* the request is served: device lookup, getPredictions, the checks
RouteGet(deviceId) ==
    /\ IF deviceId \notin espDevices
       THEN /\ response' = Response(deviceId, 404, "Device not found")
            /\ lastGet' = NoGet
       ELSE \E result \in GetOutcomes(deviceId) :
               /\ lastGet' = result
               /\ response' = RouteResponse(deviceId, result)
    /\ lastAggregation' = NoAggregation
    /\ UNCHANGED <<now, espDevices, deviceReadings, halfHourAverages, predictions,
                   provenance, batch, regen, selection, conversion>>

\* the query of getPredictions throws: its catch returns null
RouteGetQueryFails(deviceId) ==
    /\ deviceId \in espDevices
    /\ lastGet' = GetResult(deviceId, now, NoRow, TRUE, NoJson, TRUE)
    /\ response' = RouteResponse(deviceId, lastGet')
    /\ lastAggregation' = NoAggregation
    /\ UNCHANGED <<now, espDevices, deviceReadings, halfHourAverages, predictions,
                   provenance, batch, regen, selection, conversion>>

\* the device lookup throws: the handler's catch
RouteGetLookupFails(deviceId) ==
    /\ response' = Response(deviceId, 500, "Internal server error")
    /\ lastGet' = NoGet
    /\ lastAggregation' = NoAggregation
    /\ UNCHANGED <<now, espDevices, deviceReadings, halfHourAverages, predictions,
                   provenance, batch, regen, selection, conversion>>

\* texts the predicted_values column of a row may hold
StoredTexts ==
    {JSONstringify([i \in 1..NumSlots |-> Tenths(100)]),
     JSONstringify([i \in 1..(NumSlots - 1) |-> Tenths(100)]),
     JSONstringify(<<>>),
     <<Num(Tenths(50))>>,
     <<Num(0)>>,
     <<Null>>,
     <<Str>>,
     <<Word, Space, Word>>,
     <<>>}

\* a row of predictions for today
StoredRow(id, deviceId, text) ==
    [id |-> id, espId |-> deviceId, predictionDate |-> Today(now),
     predictedValues |-> text, generatedAt |-> Stamp(now) - SecondsPerDay]

InitRoute ==
    /\ now = [day |-> FirstDay, sec |-> StartSec, steps |-> 0]
    /\ espDevices = Sites
    /\ deviceReadings = {}
    /\ halfHourAverages = {}
    /\ \E rows \in SUBSET {1, 2} :
          \E text \in [rows -> StoredTexts] :
             predictions =
                {StoredRow(id, IF id = 1 THEN "S1" ELSE "S2", text[id]) : id \in rows}
    /\ provenance = <<>>
    /\ batch = IdleBatch
    /\ regen = [r \in Requests |-> IdleRequest]
    /\ lastGet = NoGet
    /\ selection = NoSelection
    /\ lastAggregation = NoAggregation
    /\ conversion = NoConversion
    /\ response = NoResponse

NextRoute ==
    \/ \E deviceId \in Sites \cup {UnknownDevice} : RouteGet(deviceId)
    \/ \E deviceId \in Sites : RouteGetQueryFails(deviceId)
    \/ \E deviceId \in Sites \cup {UnknownDevice} : RouteGetLookupFails(deviceId)

SpecRoute == InitRoute /\ [][NextRoute]_vars

\* the request was served without a failure of the database
ServedNormally ==
    /\ response.called
    /\ response.error # "Internal server error"
    /\ ~(lastGet.called /\ lastGet.threw /\ lastGet.row = NoRow)

\* the row of the device for today, where there is one
RowsForRequest ==
    {r \in predictions : r.espId = response.deviceId /\ r.predictionDate = Today(now)}

\* the stored text is a JSON array of 48 elements
IsStoredArrayOf48(text) ==
    LET json == JSONparse(text) IN json.ok /\ json.isArray /\ Len(json.elems) = NumSlots

\* C25: a retrieval request tells three outcomes apart: an unknown device
\* ("Device not found"), no stored record for today ("No predictions
\* available"), and a stored record that holds no array of 48 elements
\* ("Invalid predictions data"), which is never reported as not found.
\* (Violated: a text that does not parse, and the values null and 0, are
\* reported as "No predictions available".)
C25_RouteTellsOutcomesApart ==
    ServedNormally =>
        /\ response.deviceId \notin espDevices => response.error = "Device not found"
        /\ (response.deviceId \in espDevices /\ RowsForRequest = {}) =>
              response.error = "No predictions available"
        /\ (response.deviceId \in espDevices /\ RowsForRequest # {}) =>
              \A r \in RowsForRequest :
                 IF IsStoredArrayOf48(r.predictedValues)
                 THEN response.status = 200
                 ELSE response.error = "Invalid predictions data"

----------------------------------------------------------------------------
(* Termination of the calendar resolver's search *)

\* the target of the call is a date of the calendar (a 30th day is no date of
\* a month of 29 days)
TargetExists ==
    LET target == targetHijri(conversion.from, conversion.yearsBack)
    IN  ToHijri(FromHijri(target.year, target.month, target.day)) = target

\* days between the date the search starts at and the date it returned
DaysSearched ==
    conversion.date - approximateGregorian(conversion.from, conversion.yearsBack)

----------------------------------------------------------------------------
(* The isolation specification: the driver's pipelines and regenerations of
   both devices interleaved, generatePredictions with its query of the
   dataset, over tables that hold rows of both devices *)

\* what getHistoricalDataset(deviceId) leaves
SelectionOf(deviceId, rand1, rand2) ==
    [called           |-> TRUE,
     deviceId         |-> deviceId,
     at               |-> [day |-> now.day, sec |-> now.sec],
     sameDayLastYears |-> sameDayLastYears(deviceId, now),
     lastSevenDays    |-> lastSevenDays(deviceId, now),
     weekdayPatterns  |-> weekdayPatterns(deviceId, now, rand1, rand2)]

\* the driver: generatePredictions(device.deviceId), the dataset included
BatchGenerateFromDataset(reply, rand1, rand2) ==
    /\ batch.pc = "generate"
    /\ reply.ok
    /\ batch.devices[batch.idx] \in espDevices
    /\ selection' = SelectionOf(batch.devices[batch.idx], rand1, rand2)
    /\ batch' = [batch EXCEPT !.pc = "store",
                              !.reply = reply,
                              !.predictedValues = validatedPredictions(Content(reply))]
    /\ lastGet' = NoGet
    /\ lastAggregation' = NoAggregation
    /\ UNCHANGED <<now, espDevices, deviceReadings, halfHourAverages, predictions,
                   provenance, regen, conversion, response>>

\* the route: generatePredictions(deviceId), the dataset included
RegenGenerateFromDataset(r, reply, rand1, rand2) ==
    /\ regen[r].pc = "generate"
    /\ reply.ok
    /\ selection' = SelectionOf(regen[r].deviceId, rand1, rand2)
    /\ regen' = [regen EXCEPT ![r] =
                    [@ EXCEPT !.pc = "store",
                              !.reply = reply,
                              !.predictedValues = validatedPredictions(Content(reply))]]
    /\ lastGet' = NoGet
    /\ lastAggregation' = NoAggregation
    /\ UNCHANGED <<now, espDevices, deviceReadings, halfHourAverages, predictions,
                   provenance, batch, conversion, response>>

\* a reading of each device on the eve of the first day
ReadingsOfBothDevices ==
    {Reading(1, "S1", FirstDay - 1, 29, 80, 81),
     Reading(2, "S2", FirstDay - 1, 30, 10, 20)}

\* rows of both devices on each of the 8 days before the first day
AveragesOfBothDevices ==
    {AverageOn(2 * k - 1, "S1", FirstDay - k, 4) : k \in 1..8}
        \cup {AverageOn(2 * k, "S2", FirstDay - k, 4) : k \in 1..8}

InitIso ==
    /\ now = [day |-> FirstDay, sec |-> StartSec, steps |-> 0]
    /\ espDevices = Sites
    /\ deviceReadings = ReadingsOfBothDevices
    /\ halfHourAverages = AveragesOfBothDevices
    /\ predictions = {}
    /\ provenance = <<>>
    /\ batch = IdleBatch
    /\ regen = [r \in Requests |-> IdleRequest]
    /\ lastGet = NoGet
    /\ selection = NoSelection
    /\ lastAggregation = NoAggregation
    /\ conversion = NoConversion
    /\ response = NoResponse

NextIso ==
    \/ StartRun
    \/ BatchCalculate
    \/ \E rand \in RandomDraws : BatchGenerateFromDataset(ValidReply, rand, rand)
    \/ BatchGenerateFails
    \/ BatchStore
    \/ \E r \in Requests, deviceId \in Sites : RegenRequest(r, deviceId)
    \/ \E r \in Requests, rand \in RandomDraws :
          RegenGenerateFromDataset(r, ValidReply, rand, rand)
    \/ \E r \in Requests : RegenStore(r)

SpecIso == InitIso /\ [][NextIso]_vars

\* the rows of a device in a table
RowsOfDevice(table, deviceId) == {a \in table : a.espId = deviceId}

\* the rows of all the samples of a dataset
DatasetRows(dataset) ==
    UNION ({dataset.sameDayLastYears[i].rows : i \in DOMAIN dataset.sameDayLastYears}
           \cup {dataset.lastSevenDays.rows}
           \cup {dataset.weekdayPatterns[i].rows : i \in DOMAIN dataset.weekdayPatterns})

\* a step for device s is being taken by the driver, at program counter pc
DriverActsFor(s, pc) ==
    /\ batch.pc = pc
    /\ batch.devices[batch.idx] = s

\* a step for device s is being taken by a regeneration, at program counter pc
RouteActsFor(s, pc) ==
    \E r \in Requests : regen[r].pc = pc /\ regen[r].deviceId = s /\ regen'[r] # regen[r]

\* C27: a step of a pipeline for device S writes rows of S only, and leaves
\* the HalfHourAverage and PredictionRecord rows of every other device as
\* they were; the HalfHourAverage rows it writes are made from readings of
\* S, and the dataset it builds holds rows of S only; also when pipelines of
\* different devices interleave.
C27_PipelineTouchesOnlyItsDevice ==
    [][/\ halfHourAverages \subseteq halfHourAverages'
       /\ predictions \subseteq predictions'
       /\ \A s \in Sites :
             /\ RowsOfDevice(halfHourAverages', s) # RowsOfDevice(halfHourAverages, s) =>
                   /\ DriverActsFor(s, "calculate")
                   /\ \A a \in halfHourAverages' \ halfHourAverages :
                         \E q \in ReadingsOfDay(deviceReadings, s, now.day - 1) :
                             SlotOf(q) = a.halfHourIndex
             /\ RowsOfDevice(predictions', s) # RowsOfDevice(predictions, s) =>
                   DriverActsFor(s, "store") \/ RouteActsFor(s, "store")
       /\ selection' # selection =>
             /\ DriverActsFor(selection'.deviceId, "generate")
                   \/ RouteActsFor(selection'.deviceId, "generate")
             /\ \A a \in DatasetRows(selection') : a.espId = selection'.deviceId]_vars

\* the driver is in the pipeline of S1, with a dataset of rows of S1, after a
\* regeneration for S2 has stored its record
C27_Witness ==
    /\ batch.pc = "store"
    /\ batch.devices[batch.idx] = "S1"
    /\ selection.called
    /\ selection.deviceId = "S1"
    /\ DatasetRows(selection) # {}
    /\ \E r \in Requests : regen[r].deviceId = "S2" /\ regen[r].status = 200
    /\ RowsOfDevice(predictions, "S2") # {}

----------------------------------------------------------------------------
(* Target dates *)

\* the day a record was generated on
GeneratedOn(r) == r.generatedAt \div SecondsPerDay

----------------------------------------------------------------------------
(* The driver: no rollback, sequential processing *)

\* C29: when the prediction or the store step of a device fails in the
\* driver, the HalfHourAverage records its aggregation wrote stay in the
\* table; and an aggregation of the driver that returns adds a record for
\* every non-empty slot of yesterday whatever the table holds, so that a
\* second run on the same day leaves a second copy of each.
C29_NoRollbackThenSecondCopy ==
    [][/\ (/\ batch.pc \in {"generate", "store"}
           /\ batch'.run = batch.run
           /\ batch'.outcome[batch.idx] = "failed") =>
             halfHourAverages' = halfHourAverages
       /\ (/\ batch.pc = "calculate"
           /\ batch'.pc = "generate") =>
             \A q \in ReadingsOfDay(deviceReadings, batch.devices[batch.idx], now.day - 1) :
                 Cardinality(SlotRecords(halfHourAverages', batch.devices[batch.idx],
                                         now.day - 1, SlotOf(q)))
                    = Cardinality(SlotRecords(halfHourAverages, batch.devices[batch.idx],
                                              now.day - 1, SlotOf(q))) + 1]_vars

\* the second run of the day has aggregated S1 again, after a first run that
\* aggregated S1 and then failed for it: two copies of the slot's record
C29_Witness ==
    /\ batch.run = 2
    /\ now.day = FirstDay
    /\ lastAggregation.called
    /\ ~lastAggregation.threw
    /\ lastAggregation.deviceId = "S1"
    /\ RowsBy("batch", 1, "S1") = {}
    /\ \E q \in ReadingsOfDay(deviceReadings, "S1", now.day - 1) :
          Cardinality(SlotRecords(halfHourAverages, "S1", now.day - 1, SlotOf(q))) = 2

\* a step of a device's pipeline in the driver: it returns or it throws
BatchStep ==
    \/ BatchCalculate
    \/ BatchGenerateFails
    \/ BatchStore
    \/ BatchStoreFails
    \/ \E count \in 0..NumSlots : BatchCalculateFails(count)
    \/ \E reply \in DriverReplies : BatchGenerate(reply)

NextDriver ==
    \/ StartRun
    \/ StartRunListFails
    \/ BatchStep
    \/ Tick
    \/ NextDay

\* the driver alone, every step of a pipeline terminating
SpecDriver == Init /\ [][NextDriver]_vars /\ WF_vars(BatchStep)

\* the run is in the pipeline of a device
Running == batch.pc \in {"calculate", "generate", "store"}

\* the devices before the current one are done with, the ones after it untouched
InListOrder ==
    (Running \/ batch.pc = "done") =>
        /\ batch.devices = ListOf(espDevices)
        /\ batch.idx \in 1..Len(batch.devices)
        /\ batch.pc = "done" => batch.idx = Len(batch.devices)
        /\ \A i \in DOMAIN batch.devices :
              /\ i < batch.idx => batch.outcome[i] \in {"stored", "failed"}
              /\ (i = batch.idx /\ Running) =>
                    /\ batch.outcome[i] = "pending"
                    /\ RowsBy("batch", batch.run, batch.devices[i]) = {}
              /\ (i = batch.idx /\ batch.pc = "done") =>
                    batch.outcome[i] \in {"stored", "failed"}
              /\ i > batch.idx =>
                    /\ batch.outcome[i] = "pending"
                    /\ RowsBy("batch", batch.run, batch.devices[i]) = {}

\* within a run the loop stays with its device or moves to the next one, and
\* an outcome once reached stands
OneAttemptEach ==
    (batch'.run = batch.run /\ Running) =>
        /\ batch'.idx \in {batch.idx, batch.idx + 1}
        /\ batch'.idx = batch.idx + 1 => batch.outcome[batch.idx] = "pending"
        /\ \A i \in DOMAIN batch.outcome :
              batch.outcome[i] # "pending" => batch'.outcome[i] = batch.outcome[i]

\* C30: one run of the driver attempts each listed device once, one after the
\* other in the order of the list (the pipeline of a device starts only when
\* the pipeline before it has stored its record or failed), and, every step
\* of a pipeline terminating, the run ends normally after the last device.
C30_SequentialAndTerminating ==
    /\ []InListOrder
    /\ [][OneAttemptEach]_vars
    /\ Running ~> batch.pc = "done"

\* a run has ended normally with the records of both devices stored in the
\* order of the list
C30_Witness ==
    /\ batch.pc = "done"
    /\ Len(batch.devices) = 2
    /\ \A i \in DOMAIN batch.devices : batch.outcome[i] = "stored"
    /\ \E r \in RowsBy("batch", batch.run, batch.devices[1]) :
          \E q \in RowsBy("batch", batch.run, batch.devices[2]) : r.id < q.id

====
